---- MODULE Spec2Model ----
(***************************************************************************)
(* Volume-binding algebra of types/volume.go (parse, validate, emit,       *)
(* merge, plan application) and the node reconcile of calcium.             *)
(*                                                                         *)
(* A Go string is a sequence of one-character strings; the characters are  *)
(* ordered by their byte value, as sort.Strings orders them.               *)
(***************************************************************************)
EXTENDS Integers, Sequences, FiniteSets

VARIABLES
    \* the parse/emit pipeline
    strs, parsed, normalized,
    \* repeated merges: the current bindings, the inputs of the last call, the
    \* summed size of every original input per key, whether a call before the
    \* last dropped a group, and the number of calls made
    acc, lastIn, total, droppedEarlier, calls,
    \* plan application: the objects VolumeBinding pointers point to, the
    \* receiver (a slice of pointers), the plan, the slice returned, whether
    \* ApplyPlan has run, and the heap and receiver as they were before it
    heap, receiver, plan, res, applied, before,
    \* node reconcile: the position of the NodeResource call, its arguments,
    \* whether the node lock is held, the outcome of the node read and of the
    \* workload listing, the workloads listed, the plugins and workloads done
    \* so far, the workloads whose inspection failed, the diffs collected, and
    \* what the call returned
    npc, nodename, fix, locked, nodeRead, listing, workloads, pluginsDone,
    inspected, inspectFailed, diffs, returned

volumeVars == <<strs, parsed, normalized>>

mergeVars == <<acc, lastIn, total, droppedEarlier, calls>>

planVars == <<heap, receiver, plan, res, applied, before>>

nodeVars == <<npc, nodename, fix, locked, nodeRead, listing, workloads, pluginsDone,
              inspected, inspectFailed, diffs, returned>>

vars == <<strs, parsed, normalized, acc, lastIn, total, droppedEarlier, calls,
          heap, receiver, plan, res, applied, before,
          npc, nodename, fix, locked, nodeRead, listing, workloads, pluginsDone,
          inspected, inspectFailed, diffs, returned>>

---------------------------------------------------------------------------
(* Bounds of the model. *)

\* longest flag string among the enumerated 3- and 4-field inputs
MaxFlagLen == 3

\* number of emit steps of one parse/emit pipeline
MaxCycles == 3

\* longest VolumeBindings handed to one merge as new input
MaxBatchLen == 2

\* number of chained MergeVolumeBindings calls
MaxMerges == 2

\* number of VolumeBinding objects allocated before ApplyPlan is called
MaxObjects == 2

\* longest receiver of ApplyPlan
MaxBindings == 2

\* most workloads the store lists on the node
MaxWorkloads == 2

\* most resource plugins registered
MaxPlugins == 1

---------------------------------------------------------------------------
(* strings, strconv, sort, fmt *)

Digits == <<"0", "1", "2", "3", "4", "5", "6", "7", "8", "9">>

IsDigit(c) == \E i \in 1..10 : Digits[i] = c

DigitVal(c) == (CHOOSE i \in 1..10 : Digits[i] = c) - 1

\* the byte value of a character of the model's alphabet
ByteOf(c) ==
    CASE c = "+" -> 43
      [] c = "-" -> 45
      [] c = "/" -> 47
      [] IsDigit(c) -> 48 + DigitVal(c)
      [] c = ":" -> 58
      [] c = "A" -> 65
      [] c = "O" -> 79
      [] c = "T" -> 84
      [] c = "U" -> 85
      [] c = "a" -> 97
      [] c = "c" -> 99
      [] c = "d" -> 100
      [] c = "h" -> 104
      [] c = "m" -> 109
      [] c = "n" -> 110
      [] c = "o" -> 111
      [] c = "r" -> 114
      [] c = "t" -> 116
      [] c = "w" -> 119
      [] c = "x" -> 120

RECURSIVE SplitFrom(_, _, _, _)
SplitFrom(s, sep, i, cur) ==
    IF i > Len(s) THEN <<cur>>
    ELSE IF s[i] = sep THEN <<cur>> \o SplitFrom(s, sep, i + 1, <<>>)
    ELSE SplitFrom(s, sep, i + 1, Append(cur, s[i]))

\* strings.Split(s, sep) for a one-character sep: one part more than separators
Split(s, sep) == SplitFrom(s, sep, 1, <<>>)

\* strings.Split(s, ""): the characters of s, each a string of its own
SplitChars(s) == [i \in 1..Len(s) |-> <<s[i]>>]

RECURSIVE Join(_, _)
\* strings.Join(parts, sep)
Join(parts, sep) ==
    IF parts = <<>> THEN <<>>
    ELSE IF Len(parts) = 1 THEN parts[1]
    ELSE parts[1] \o sep \o Join(Tail(parts), sep)

RECURSIVE StrLess(_, _)
\* a < b on Go strings: bytewise lexicographic
StrLess(a, b) ==
    IF b = <<>> THEN FALSE
    ELSE IF a = <<>> THEN TRUE
    ELSE IF ByteOf(Head(a)) # ByteOf(Head(b)) THEN ByteOf(Head(a)) < ByteOf(Head(b))
    ELSE StrLess(Tail(a), Tail(b))

RECURSIVE InsertSorted(_, _)
InsertSorted(x, sorted) ==
    IF sorted = <<>> THEN <<x>>
    ELSE IF StrLess(x, Head(sorted)) THEN <<x>> \o sorted
    ELSE <<Head(sorted)>> \o InsertSorted(x, Tail(sorted))

RECURSIVE SortStrings(_)
\* sort.Strings(parts): ascending
SortStrings(parts) ==
    IF parts = <<>> THEN <<>>
    ELSE InsertSorted(Head(parts), SortStrings(Tail(parts)))

\* strings.Contains(s, c) for a one-character c
Contains(s, c) == \E i \in 1..Len(s) : s[i] = c

\* strings.HasSuffix(s, suffix)
HasSuffix(s, suffix) ==
    /\ Len(s) >= Len(suffix)
    /\ SubSeq(s, Len(s) - Len(suffix) + 1, Len(s)) = suffix

RECURSIVE ReplaceAll(_, _, _)
\* strings.ReplaceAll(s, old, new) for a one-character old
ReplaceAll(s, old, new) ==
    IF s = <<>> THEN <<>>
    ELSE (IF Head(s) = old THEN new ELSE <<Head(s)>>) \o ReplaceAll(Tail(s), old, new)

RECURSIVE ParseUint(_, _)
ParseUint(s, accu) ==
    IF s = <<>> THEN [err |-> FALSE, val |-> accu]
    ELSE IF ~IsDigit(Head(s)) THEN [err |-> TRUE, val |-> 0]
    ELSE ParseUint(Tail(s), accu * 10 + DigitVal(Head(s)))

\* strconv.ParseInt(s, 10, 64): an optional sign and at least one digit.
\* The inputs of the model have at most four digits, far inside 64 bits.
ParseInt(s) ==
    IF s = <<>> THEN [err |-> TRUE, val |-> 0]
    ELSE LET signed == s[1] \in {"+", "-"}
             body == IF signed THEN Tail(s) ELSE s
         IN  IF body = <<>> THEN [err |-> TRUE, val |-> 0]
             ELSE LET u == ParseUint(body, 0)
                  IN  IF u.err THEN [err |-> TRUE, val |-> 0]
                      ELSE [err |-> FALSE,
                            val |-> IF s[1] = "-" THEN 0 - u.val ELSE u.val]

RECURSIVE FormatUint(_)
FormatUint(n) ==
    IF n < 10 THEN <<Digits[n + 1]>>
    ELSE Append(FormatUint(n \div 10), Digits[(n % 10) + 1])

\* fmt's %d of an int64
FormatInt(n) == IF n < 0 THEN <<"-">> \o FormatUint(0 - n) ELSE FormatUint(n)

---------------------------------------------------------------------------
(* types/volume.go *)

auto == <<"A", "U", "T", "O">>

\* &VolumeBinding{}: the zero value
ZeroBinding ==
    [Source |-> <<>>, Destination |-> <<>>, Flags |-> <<>>, SizeInBytes |-> 0,
     ReadIOPS |-> 0, WriteIOPS |-> 0, ReadBytes |-> 0, WriteBytes |-> 0]

RequireSchedule(vb) == HasSuffix(vb.Source, auto)

\* mutant: a binding with an IO quota counts as well
RequireScheduleUnlimitedOrQuota(vb) ==
    /\ RequireSchedule(vb)
    /\ \/ vb.SizeInBytes = 0
       \/ vb.ReadIOPS # 0 \/ vb.WriteIOPS # 0 \/ vb.ReadBytes # 0 \/ vb.WriteBytes # 0

RequireScheduleUnlimitedQuota(vb) == RequireSchedule(vb) /\ vb.SizeInBytes = 0

RequireScheduleMonopoly(vb) == RequireSchedule(vb) /\ Contains(vb.Flags, "m")

ValidIOParameters(vb) ==
    vb.ReadIOPS >= 0 /\ vb.WriteIOPS >= 0 /\ vb.ReadBytes >= 0 /\ vb.WriteBytes >= 0

\* mutant: the IO parameters are not looked at
ValidateWithoutIO(vb) ==
    IF vb.Destination = <<>> THEN "dest must be provided"
    ELSE IF RequireScheduleMonopoly(vb) /\ RequireScheduleUnlimitedQuota(vb)
         THEN "monopoly volume must not be limited"
    ELSE "none"

\* the error Validate returns, by its message; "none" is nil
Validate(vb) ==
    IF vb.Destination = <<>> THEN "dest must be provided"
    ELSE IF RequireScheduleMonopoly(vb) /\ RequireScheduleUnlimitedQuota(vb)
         THEN "monopoly volume must not be limited"
    ELSE IF ~ValidIOParameters(vb) THEN "invalid io parameters"
    ELSE "none"

\* the switch of NewVolumeBinding: the numeric fields in the order the code
\* parses them, the first failure returning (nil, err)
ParseFields(parts) ==
    LET n == Len(parts)
        num(i) == ParseInt(parts[i])
        failed == [nil |-> TRUE, vb |-> ZeroBinding, err |-> "invalid syntax"]
    IN  IF n \notin {2, 3, 4, 8}
        THEN [nil |-> TRUE, vb |-> ZeroBinding, err |-> "invalid rawVolume"]
        ELSE IF n = 8 /\ (num(5).err \/ num(6).err \/ num(7).err \/ num(8).err)
        THEN failed
        ELSE IF n >= 4 /\ num(4).err THEN failed
        ELSE [nil |-> FALSE, err |-> "none",
              vb |-> [Source |-> parts[1],
                      Destination |-> parts[2],
                      Flags |-> IF n >= 3 THEN parts[3] ELSE <<>>,
                      SizeInBytes |-> IF n >= 4 THEN num(4).val ELSE 0,
                      ReadIOPS |-> IF n = 8 THEN num(5).val ELSE 0,
                      WriteIOPS |-> IF n = 8 THEN num(6).val ELSE 0,
                      ReadBytes |-> IF n = 8 THEN num(7).val ELSE 0,
                      WriteBytes |-> IF n = 8 THEN num(8).val ELSE 0]]

\* lines 62-64: the flag characters sorted ascending
SortFlags(flags) == Join(SortStrings(SplitChars(flags)), <<>>)

\* NewVolumeBinding(rawVolume): (nil, err) on a parse failure, else
\* (vb, vb.Validate())
NewVolumeBinding(rawVolume) ==
    LET p == ParseFields(Split(rawVolume, ":"))
    IN  IF p.nil THEN p
        ELSE LET vb == [p.vb EXCEPT !.Flags = SortFlags(p.vb.Flags)]
             IN  [nil |-> FALSE, vb |-> vb, err |-> Validate(vb)]

\* lines 105-114: the flags ToString writes
EmitFlags(vb, normalize) ==
    LET f1 == IF normalize THEN ReplaceAll(vb.Flags, "m", <<>>) ELSE vb.Flags
    IN  IF Contains(f1, "o")
        THEN ReplaceAll(ReplaceAll(ReplaceAll(f1, "o", <<>>), "r", <<"r", "o">>),
                        "w", <<"w", "o">>)
        ELSE f1

\* lines 116-124: the arity ToString chooses
EmitArity(vb) ==
    IF vb.Flags = <<>> /\ vb.SizeInBytes = 0 THEN 2
    ELSE IF vb.ReadIOPS # 0 \/ vb.WriteIOPS # 0 \/ vb.ReadBytes # 0 \/ vb.WriteBytes # 0
         THEN 8
    ELSE 4

ToString(vb, normalize) ==
    LET flags == EmitFlags(vb, normalize)
        four == <<vb.Source, vb.Destination, flags, FormatInt(vb.SizeInBytes)>>
        n == EmitArity(vb)
    IN  IF n = 2 THEN Join(<<vb.Source, vb.Destination>>, <<":">>)
        ELSE IF n = 8
             THEN Join(four \o <<FormatInt(vb.ReadIOPS), FormatInt(vb.WriteIOPS),
                                 FormatInt(vb.ReadBytes), FormatInt(vb.WriteBytes)>>,
                       <<":">>)
        ELSE Join(four, <<":">>)

---------------------------------------------------------------------------
(* Inputs of the parse/emit pipeline *)

FlagChars == {"m", "o", "r", "w"}

RECURSIVE StringsOver(_, _)
\* the strings over alphabet of length at most n
StringsOver(alphabet, n) ==
    IF n = 0 THEN {<<>>}
    ELSE LET shorter == StringsOver(alphabet, n - 1)
         IN  shorter \cup {Append(s, c) : s \in shorter, c \in alphabet}

FlagStrs == StringsOver(FlagChars, MaxFlagLen)

Sources == {<<"/", "h">>, auto, <<"n">> \o auto}

Dests == {<<>>, <<"/", "c">>}

SizeStrs == {<<"0">>, <<"1">>, <<"-", "1">>, <<"+", "1">>, <<"0", "1">>,
             <<"1", "0">>, <<>>, <<"-">>, <<"x">>}

IOStrs == {<<"0">>, <<"1">>, <<"-", "1">>, <<"x">>}

\* the flag strings of the enumerated 8-field inputs
QuotaFlagStrs == {<<>>, <<"m">>, <<"o">>, <<"w", "r">>, <<"r", "w", "m">>,
                  <<"r", "w", "o">>}

\* scenario S1 of the specification
S1Raw ==
    <<"A", "U", "T", "O", ":", "/", "d", "a", "t", "a", ":", "r", "w", "m", ":",
      "1", "0", "2", "4", ":", "1", "0", ":", "2", "0", ":",
      "4", "0", "9", "6", ":", "8", "1", "9", "2">>

\* scenario S2 of the specification
S2Raw == <<"/", "h", ":", "/", "c", ":", "r", "w", "o", ":", "0">>

RawFields ==
    {<<s>> : s \in Sources}
    \cup {<<s, d>> : s \in Sources, d \in Dests}
    \cup {<<s, d, f>> : s \in Sources, d \in Dests, f \in FlagStrs}
    \cup {<<s, d, f, z>> : s \in Sources, d \in Dests, f \in FlagStrs, z \in SizeStrs}
    \cup {<<s, d, f, z, a>> :
            s \in Sources, d \in Dests, f \in QuotaFlagStrs, z \in {<<"0">>},
            a \in IOStrs}
    \cup {<<s, d, f, z, a, b, c, e>> :
            s \in Sources, d \in Dests, f \in QuotaFlagStrs, z \in {<<"0">>, <<"1">>},
            a \in IOStrs, b \in IOStrs, c \in IOStrs, e \in IOStrs}
    \cup {<<s, d, f, z, a, a, a, a, a>> :
            s \in Sources, d \in Dests, f \in QuotaFlagStrs, z \in {<<"0">>},
            a \in IOStrs}

RawInputs == {Join(fs, <<":">>) : fs \in RawFields} \cup {S1Raw, S2Raw}

---------------------------------------------------------------------------
(* The parse/emit pipeline: strs[1] is the input; parsed[i] is               *)
(* NewVolumeBinding(strs[i]); strs[i+1] is parsed[i].vb.ToString(false);     *)
(* normalized holds parsed[1].vb.ToString(true).                            *)

VolumeIdle ==
    /\ strs = <<>>
    /\ parsed = <<>>
    /\ normalized = <<>>

PlanIdle ==
    /\ heap = <<>>
    /\ receiver = <<>>
    /\ plan = <<>>
    /\ res = <<>>
    /\ applied = FALSE
    /\ before = <<>>

NoResult == [err |-> "none", Name |-> <<>>, Diffs |-> <<>>]

NodeIdle ==
    /\ npc = "idle"
    /\ nodename = <<>>
    /\ fix = FALSE
    /\ locked = FALSE
    /\ nodeRead = "pending"
    /\ listing = "pending"
    /\ workloads = <<>>
    /\ pluginsDone = 0
    /\ inspected = 0
    /\ inspectFailed = {}
    /\ diffs = <<>>
    /\ returned = NoResult

MergeIdle ==
    /\ acc = <<>>
    /\ lastIn = <<>>
    /\ total = <<>>
    /\ droppedEarlier = FALSE
    /\ calls = 0

VolumeInit ==
    /\ \E raw \in RawInputs : strs = <<raw>>
    /\ parsed = <<>>
    /\ normalized = <<>>
    /\ MergeIdle
    /\ PlanIdle
    /\ NodeIdle

Parse ==
    /\ Len(parsed) < Len(strs)
    /\ parsed' = Append(parsed, NewVolumeBinding(strs[Len(strs)]))
    /\ UNCHANGED <<strs, normalized, mergeVars, planVars, nodeVars>>

Emit ==
    /\ Len(parsed) = Len(strs)
    /\ Len(strs) <= MaxCycles
    /\ normalized = <<>>
    /\ parsed[Len(parsed)].err = "none"
    /\ strs' = Append(strs, ToString(parsed[Len(parsed)].vb, FALSE))
    /\ UNCHANGED <<parsed, normalized, mergeVars, planVars, nodeVars>>

EmitNormalized ==
    /\ Len(parsed) = 1
    /\ Len(strs) = 1
    /\ normalized = <<>>
    /\ parsed[1].err = "none"
    /\ normalized' = <<ToString(parsed[1].vb, TRUE)>>
    /\ UNCHANGED <<strs, parsed, mergeVars, planVars, nodeVars>>

VolumeNext == Parse \/ Emit \/ EmitNormalized

SpecVolume == VolumeInit /\ [][VolumeNext]_vars

---------------------------------------------------------------------------
(* MergeVolumeBindings and TotalSize *)

KeyOf(vb) == <<vb.Source, vb.Destination, vb.Flags>>

ParaOf(vb) == <<vb.SizeInBytes, vb.ReadIOPS, vb.WriteIOPS, vb.ReadBytes, vb.WriteBytes>>

\* mutant: the last quota is overwritten, not added to
AddParaLosingWriteBytes(para, vb) ==
    <<para[1] + vb.SizeInBytes, para[2] + vb.ReadIOPS, para[3] + vb.WriteIOPS,
      para[4] + vb.ReadBytes, vb.WriteBytes>>

\* lines 220-224
AddPara(para, vb) ==
    <<para[1] + vb.SizeInBytes, para[2] + vb.ReadIOPS, para[3] + vb.WriteIOPS,
      para[4] + vb.ReadBytes, para[5] + vb.WriteBytes>>

RECURSIVE SizeMapFrom(_, _)
\* lines 214-227: sizeMap after the bindings of vbs, in order, starting from m
SizeMapFrom(m, vbs) ==
    IF vbs = <<>> THEN m
    ELSE LET vb == Head(vbs)
             key == KeyOf(vb)
             para == IF key \notin DOMAIN m THEN ParaOf(vb) ELSE AddPara(m[key], vb)
         IN  SizeMapFrom([k \in DOMAIN m \cup {key} |-> IF k = key THEN para ELSE m[k]],
                         Tail(vbs))

RECURSIVE Flatten(_)
Flatten(lists) == IF lists = <<>> THEN <<>> ELSE Head(lists) \o Flatten(Tail(lists))

\* the bindings in the order of the loops of lines 214-215: append(vbs2, vbs1)
MergeInputs(vbs1, vbs2) == Flatten(Append(vbs2, vbs1))

\* mutant: no group is dropped
KeptKeysAll(m) == DOMAIN m

\* lines 229-232: the keys that are not skipped
KeptKeys(m) == {key \in DOMAIN m : ~(m[key][1] < 0)}

\* lines 233-242
BindingOf(key, para) ==
    [Source |-> key[1], Destination |-> key[2], Flags |-> key[3],
     SizeInBytes |-> para[1], ReadIOPS |-> para[2], WriteIOPS |-> para[3],
     ReadBytes |-> para[4], WriteBytes |-> para[5]]

\* the orders in which a range over a Go map may visit the keys in S
Orders(S) ==
    {o \in [1..Cardinality(S) -> S] : \A i, j \in 1..Cardinality(S) : o[i] = o[j] => i = j}

\* MergeVolumeBindings(vbs1, vbs2...): every result the map's iteration order
\* allows
MergeVolumeBindings(vbs1, vbs2) ==
    LET sizeMap == SizeMapFrom(<<>>, MergeInputs(vbs1, vbs2))
    IN  {[i \in 1..Len(o) |-> BindingOf(o[i], sizeMap[o[i]])] : o \in Orders(KeptKeys(sizeMap))}

RECURSIVE TotalSize(_)
TotalSize(vbs) == IF vbs = <<>> THEN 0 ELSE Head(vbs).SizeInBytes + TotalSize(Tail(vbs))

---------------------------------------------------------------------------
(* Chained merges: acc = Merge(acc, new...) *)

Key1 == <<auto, <<"/", "d">>, <<"r", "w">>>>

Key2 == <<auto, <<"/", "d">>, <<"r">>>>

MergeKeys == {Key1, Key2}

\* the bindings merges are fed with; a negative size encodes a release
MergeUniverse ==
    <<BindingOf(Key1, <<100, 1, 2, 3, 4>>), BindingOf(Key1, <<-100, 0, 0, 0, 0>>),
      BindingOf(Key2, <<150, 0, 0, 0, 1>>), BindingOf(Key2, <<-200, 0, 0, 0, 0>>)>>

\* the VolumeBindings fed to a merge: up to MaxBatchLen bindings of the
\* universe, listed in the order of the universe
Batches ==
    {[i \in 1..Len(ix) |-> MergeUniverse[ix[i]]] :
        ix \in {s \in StringsOver(1..Len(MergeUniverse), MaxBatchLen) :
                   \A i \in 1..Len(s) : \A j \in i..Len(s) : s[i] <= s[j]}}

RECURSIVE SumOfKey(_, _, _)
\* the sum of field f (1: size, 2..5: the IO quotas) over the bindings of vbs
\* whose key is key
SumOfKey(vbs, key, f) ==
    IF vbs = <<>> THEN 0
    ELSE (IF KeyOf(Head(vbs)) = key THEN ParaOf(Head(vbs))[f] ELSE 0)
         + SumOfKey(Tail(vbs), key, f)

KeysIn(vbs) == {KeyOf(vbs[i]) : i \in 1..Len(vbs)}

MergeInit ==
    /\ \E b \in Batches :
          /\ acc = b
          /\ total = [key \in MergeKeys |-> SumOfKey(b, key, 1)]
    /\ lastIn = <<>>
    /\ droppedEarlier = FALSE
    /\ calls = 0
    /\ VolumeIdle
    /\ PlanIdle
    /\ NodeIdle

\* acc = MergeVolumeBindings(acc, vbs2...), two or more new bindings passed as
\* two variadic arguments
Merge ==
    /\ calls < MaxMerges
    /\ \E new \in Batches :
          LET vbs2 == IF Len(new) < 2 THEN <<new>>
                      ELSE <<SubSeq(new, 1, 1), SubSeq(new, 2, Len(new))>>
          IN  /\ acc' \in MergeVolumeBindings(acc, vbs2)
              /\ lastIn' = MergeInputs(acc, vbs2)
              /\ total' = [key \in MergeKeys |-> total[key] + SumOfKey(new, key, 1)]
    /\ droppedEarlier' = (droppedEarlier \/ \E key \in KeysIn(lastIn) : key \notin KeysIn(acc))
    /\ calls' = calls + 1
    /\ UNCHANGED <<volumeVars, planVars, nodeVars>>

MergeNext == Merge

SpecMerge == MergeInit /\ [][MergeNext]_vars

---------------------------------------------------------------------------
(* VolumeBindings.ApplyPlan.  A *VolumeBinding is an index into heap. *)

\* plan.GetVolumeMap(vb) and vmap.GetResourceID(): the plan maps bindings to
\* volume maps, each naming one resource id; nil is true when it has none
GetVolumeMap(p, vb) ==
    IF vb \in DOMAIN p THEN [nil |-> FALSE, id |-> p[vb]] ELSE [nil |-> TRUE, id |-> <<>>]

RECURSIVE ApplyPlanInPlaceFrom(_, _, _, _, _)
ApplyPlanInPlaceFrom(h, vbs, p, i, out) ==
    IF i > Len(vbs) THEN [heap |-> h, res |-> out]
    ELSE LET vmap == GetVolumeMap(p, h[vbs[i]])
         IN  ApplyPlanInPlaceFrom(
                 IF vmap.nil THEN h ELSE [h EXCEPT ![vbs[i]].Source = vmap.id],
                 vbs, p, i + 1, Append(out, vbs[i]))

\* mutant: newVb := vb, the binding itself instead of a copy of it
ApplyPlanInPlace(h, vbs, p) == ApplyPlanInPlaceFrom(h, vbs, p, 1, <<>>)

RECURSIVE ApplyPlanFrom(_, _, _, _, _)
\* the loop of lines 175-182 from its i-th iteration: tmp := *vb is a new
\* object, at the next free index of the heap
ApplyPlanFrom(h, vbs, p, i, out) ==
    IF i > Len(vbs) THEN [heap |-> h, res |-> out]
    ELSE LET tmp == h[vbs[i]]
             vmap == GetVolumeMap(p, h[vbs[i]])
             newVb == IF vmap.nil THEN tmp ELSE [tmp EXCEPT !.Source = vmap.id]
         IN  ApplyPlanFrom(Append(h, newVb), vbs, p, i + 1, Append(out, Len(h) + 1))

\* vbs.ApplyPlan(plan): the heap after the call and the slice returned
ApplyPlan(h, vbs, p) == ApplyPlanFrom(h, vbs, p, 1, <<>>)

SoftD == BindingOf(<<auto, <<"/", "d">>, <<"r", "w">>>>, <<100, 0, 0, 0, 0>>)

SoftE == BindingOf(<<auto, <<"/", "e">>, <<"r", "w">>>>, <<100, 1, 0, 0, 0>>)

HardD == BindingOf(<<<<"/", "h">>, <<"/", "d">>, <<"r", "w">>>>, <<0, 0, 0, 0, 0>>)

PlanUniverse == {SoftD, SoftE, HardD}

ResourceIDs == {<<"/", "a">>, <<"/", "n">>}

\* the volume plans: resource ids for some of the soft bindings
Plans == UNION {[D -> ResourceIDs] : D \in SUBSET {SoftD, SoftE}}

PlanInit ==
    /\ \E n \in 0..MaxObjects : heap \in [1..n -> PlanUniverse]
    /\ \E n \in 0..MaxBindings : receiver \in [1..n -> 1..Len(heap)]
    /\ plan \in Plans
    /\ res = <<>>
    /\ applied = FALSE
    /\ before = [heap |-> heap, receiver |-> receiver]
    /\ VolumeIdle
    /\ MergeIdle
    /\ NodeIdle

DoApplyPlan ==
    /\ ~applied
    /\ LET r == ApplyPlan(heap, receiver, plan)
       IN  /\ heap' = r.heap
           /\ res' = r.res
    /\ applied' = TRUE
    /\ UNCHANGED <<receiver, plan, before, volumeVars, mergeVars, nodeVars>>

PlanNext == DoApplyPlan

SpecPlan == PlanInit /\ [][PlanNext]_vars

---------------------------------------------------------------------------
(* calcium.NodeResource(ctx, nodename, fix), the node reconcile.  The store, *)
(* the lock, the plugins and the engine are the environment: each call of    *)
(* theirs succeeds or fails.                                                 *)

testnode == <<"n">>

\* the workload ids the store may list
WorkloadIDs == {<<"a">>, <<"c">>}

NodeInit ==
    /\ npc = "validate"
    /\ nodename \in {<<>>, testnode}
    /\ fix \in BOOLEAN
    /\ locked = FALSE
    /\ nodeRead = "pending"
    /\ listing = "pending"
    /\ workloads = <<>>
    /\ pluginsDone = 0
    /\ inspected = 0
    /\ inspectFailed = {}
    /\ diffs = <<>>
    /\ returned = NoResult
    /\ VolumeIdle
    /\ MergeIdle
    /\ PlanIdle

\* the call returns err, releasing the lock it holds
Fail(err) ==
    /\ returned' = [err |-> err, Name |-> <<>>, Diffs |-> <<>>]
    /\ locked' = FALSE
    /\ npc' = "done"

\* an empty node name is an input error
ValidateName ==
    /\ npc = "validate"
    /\ \/ /\ nodename = <<>>
          /\ Fail("empty node name")
       \/ /\ nodename # <<>>
          /\ npc' = "lock"
          /\ UNCHANGED <<returned, locked>>
    /\ UNCHANGED <<nodename, fix, nodeRead, listing, workloads, pluginsDone, inspected,
                   inspectFailed, diffs, volumeVars, mergeVars, planVars>>

\* step 1: lock the node
LockNode ==
    /\ npc = "lock"
    /\ \/ /\ locked' = TRUE
          /\ npc' = "getnode"
          /\ UNCHANGED returned
       \/ Fail("lock failed")
    /\ UNCHANGED <<nodename, fix, nodeRead, listing, workloads, pluginsDone, inspected,
                   inspectFailed, diffs, volumeVars, mergeVars, planVars>>

\* the node is read from the store under the lock
GetNode ==
    /\ npc = "getnode"
    /\ \/ /\ nodeRead' = "ok"
          /\ npc' = "list"
          /\ UNCHANGED <<returned, locked>>
       \/ /\ nodeRead' = "failed"
          /\ Fail("store error")
    /\ UNCHANGED <<nodename, fix, listing, workloads, pluginsDone, inspected,
                   inspectFailed, diffs, volumeVars, mergeVars, planVars>>

\* step 2: list the workloads on the node
ListNodeWorkloads ==
    /\ npc = "list"
    /\ \/ /\ listing' = "ok"
          /\ \E n \in 0..MaxWorkloads : \E ws \in [1..n -> WorkloadIDs] : workloads' = ws
          /\ npc' = "plugins"
          /\ UNCHANGED <<returned, locked>>
       \/ /\ listing' = "failed"
          /\ UNCHANGED workloads
          /\ Fail("store error")
    /\ UNCHANGED <<nodename, fix, nodeRead, pluginsDone, inspected, inspectFailed, diffs,
                   volumeVars, mergeVars, planVars>>

\* step 3: one plugin's GetNodeResourceInfo; its diffs, or its error, join the
\* diffs and the reconcile continues
GetNodeResourceInfo ==
    /\ npc = "plugins"
    /\ pluginsDone < MaxPlugins
    /\ \/ UNCHANGED diffs
       \/ diffs' = Append(diffs, [workload |-> <<>>, what |-> "plugin diff"])
       \/ diffs' = Append(diffs, [workload |-> <<>>, what |-> "plugin error"])
    /\ pluginsDone' = pluginsDone + 1
    /\ UNCHANGED <<npc, nodename, fix, locked, nodeRead, listing, workloads, inspected,
                   inspectFailed, returned, volumeVars, mergeVars, planVars>>

\* every registered plugin, one at least, has been asked
PluginsDone ==
    /\ npc = "plugins"
    /\ pluginsDone >= 1
    /\ npc' = "inspect"
    /\ UNCHANGED <<nodename, fix, locked, nodeRead, listing, workloads, pluginsDone,
                   inspected, inspectFailed, diffs, returned, volumeVars, mergeVars,
                   planVars>>

\* mutant: a failed inspection aborts the reconcile with its error
InspectWorkloadAborting ==
    /\ npc = "inspect"
    /\ inspected < Len(workloads)
    /\ \/ /\ inspected' = inspected + 1
          /\ UNCHANGED <<npc, locked, inspectFailed, diffs, returned>>
       \/ /\ inspectFailed' = inspectFailed \cup {inspected + 1}
          /\ Fail("inspect failed")
          /\ UNCHANGED <<inspected, diffs>>
    /\ UNCHANGED <<nodename, fix, nodeRead, listing, workloads, pluginsDone,
                   volumeVars, mergeVars, planVars>>

\* step 4: the engine inspects the next workload; a failure is recorded as
\* "<id>: inspect failed: <err>" and the loop goes on
InspectWorkload ==
    /\ npc = "inspect"
    /\ inspected < Len(workloads)
    /\ \/ UNCHANGED <<inspectFailed, diffs>>
       \/ /\ inspectFailed' = inspectFailed \cup {inspected + 1}
          /\ diffs' = Append(diffs, [workload |-> workloads[inspected + 1],
                                     what |-> "inspect failed"])
    /\ inspected' = inspected + 1
    /\ UNCHANGED <<npc, nodename, fix, locked, nodeRead, listing, workloads, pluginsDone,
                   returned, volumeVars, mergeVars, planVars>>

\* step 5: the lock is released and {node-name, diffs} returned
ReturnNodeResource ==
    /\ npc = "inspect"
    /\ inspected = Len(workloads)
    /\ returned' = [err |-> "none", Name |-> nodename, Diffs |-> diffs]
    /\ locked' = FALSE
    /\ npc' = "done"
    /\ UNCHANGED <<nodename, fix, nodeRead, listing, workloads, pluginsDone, inspected,
                   inspectFailed, diffs, volumeVars, mergeVars, planVars>>

NodeNext ==
    \/ ValidateName
    \/ LockNode
    \/ GetNode
    \/ ListNodeWorkloads
    \/ GetNodeResourceInfo
    \/ PluginsDone
    \/ InspectWorkload
    \/ ReturnNodeResource

SpecNode == NodeInit /\ [][NodeNext]_vars

---------------------------------------------------------------------------
(* Reading a raw volume string field by field, without the parser *)

ColonsOf(raw) == {i \in 1..Len(raw) : raw[i] = ":"}

NumFields(raw) == Cardinality(ColonsOf(raw)) + 1

\* the k-th colon-separated field of raw, 1 <= k <= NumFields(raw)
FieldOf(raw, k) ==
    LET marks == ColonsOf(raw) \cup {0, Len(raw) + 1}
        a == CHOOSE i \in marks : Cardinality({j \in marks : j < i}) = k - 1
        b == CHOOSE i \in marks : Cardinality({j \in marks : j < i}) = k
    IN  SubSeq(raw, a + 1, b - 1)

DecimalBody(s) == IF s # <<>> /\ s[1] \in {"+", "-"} THEN Tail(s) ELSE s

\* s is a decimal integer: an optional sign, then one digit or more
IsDecimal(s) ==
    /\ DecimalBody(s) # <<>>
    /\ \A i \in 1..Len(DecimalBody(s)) : IsDigit(DecimalBody(s)[i])

IsZeroDecimal(s) == \A i \in 1..Len(DecimalBody(s)) : DecimalBody(s)[i] = "0"

IsNegativeDecimal(s) == s[1] = "-" /\ ~IsZeroDecimal(s)

CountOf(s, c) == Cardinality({i \in 1..Len(s) : s[i] = c})

IsSortedPermutation(out, in) ==
    /\ Len(out) = Len(in)
    /\ \A i \in 1..Len(in) : CountOf(out, in[i]) = CountOf(in, in[i])
    /\ \A i \in 1..Len(out) : \A j \in i..Len(out) : ByteOf(out[i]) <= ByteOf(out[j])

AnyIOQuota(vb) ==
    vb.ReadIOPS # 0 \/ vb.WriteIOPS # 0 \/ vb.ReadBytes # 0 \/ vb.WriteBytes # 0

\* the conditions under which the specification has a raw volume accepted
Accepts(raw) ==
    LET n == NumFields(raw)
        autoSource == HasSuffix(FieldOf(raw, 1), auto)
        monopoly == autoSource /\ n >= 3 /\ Contains(FieldOf(raw, 3), "m")
        unlimited == autoSource /\ (n < 4 \/ IsZeroDecimal(FieldOf(raw, 4)))
    IN  /\ n \in {2, 3, 4, 8}
        /\ n >= 4 => IsDecimal(FieldOf(raw, 4))
        /\ n = 8 => \A k \in 5..8 : IsDecimal(FieldOf(raw, k))
        /\ FieldOf(raw, 2) # <<>>
        /\ n = 8 => \A k \in 5..8 : ~IsNegativeDecimal(FieldOf(raw, k))
        /\ ~(monopoly /\ unlimited)

---------------------------------------------------------------------------
(* Claims about the parse/emit pipeline, checked under SpecVolume *)

\* C1: round trip. Every valid binding vb with sorted flags is returned by
\* NewVolumeBinding(vb.ToString(false)) without error and equal in all eight
\* fields.
C1_RoundTrip ==
    \A i \in 1..Len(parsed) :
        (parsed[i].err = "none" /\ Len(parsed) > i) =>
            /\ parsed[i + 1].err = "none"
            /\ parsed[i + 1].vb = parsed[i].vb

\* C4: parse/emit stability. For an accepted s0, s1 = parse(s0).emit(false) is
\* accepted and every further parse/emit cycle returns s1 again.
C4_EmitFixedPoint ==
    \A i \in 2..Len(strs) :
        /\ Len(parsed) >= i => parsed[i].err = "none"
        /\ strs[i] = strs[2]

\* C5: ToString(false) writes the flags as stored; the binding parsed from
\* "/h:/c:rwo:0" is emitted as "/h:/c:orw:0".
C5_NonNormalizedKeepsFlags ==
    \A i \in 1..Len(parsed) :
        Len(strs) > i =>
            /\ NumFields(strs[i + 1]) >= 3 => FieldOf(strs[i + 1], 3) = parsed[i].vb.Flags
            /\ strs[i] = S2Raw =>
                  strs[i + 1] = <<"/", "h", ":", "/", "c", ":", "o", "r", "w", ":", "0">>

\* the arity C9 gives the emission of vb
ArityAsClaimed(vb, n) ==
    /\ (vb.Flags = <<>> /\ vb.SizeInBytes = 0) => n = 2
    /\ AnyIOQuota(vb) => n = 8
    /\ (~(vb.Flags = <<>> /\ vb.SizeInBytes = 0) /\ ~AnyIOQuota(vb)) => n = 4

\* C9: ToString emits 2 fields when the flags are empty and the size is 0, 8
\* fields when any IO quota is non-zero and 4 fields otherwise, for both values
\* of normalize: a non-zero IO quota is never absent from the emitted string.
C9_ShortestArity ==
    /\ \A i \in 1..Len(parsed) :
          Len(strs) > i => ArityAsClaimed(parsed[i].vb, NumFields(strs[i + 1]))
    /\ normalized # <<>> => ArityAsClaimed(parsed[1].vb, NumFields(normalized[1]))

\* C6, as amended: a binding with an auto source and the m flag is rejected as
\* "monopoly volume must not be limited" exactly when its destination is given
\* and its size is 0; its IO quotas play no part, and scenario S1 is accepted.
C6_MonopolyRejectedOnlyWhenUnlimited ==
    \A i \in 1..Len(parsed) :
        LET vb == parsed[i].vb
        IN  (~parsed[i].nil /\ HasSuffix(vb.Source, auto) /\ Contains(vb.Flags, "m")) =>
                /\ parsed[i].err = "monopoly volume must not be limited"
                      <=> (vb.Destination # <<>> /\ vb.SizeInBytes = 0)
                /\ (strs[i] = S1Raw) => parsed[i].err = "none"

\* C6 witness: scenario S1 has been parsed, with its IO quotas, and accepted.
C6_Witness ==
    /\ strs[1] = S1Raw
    /\ Len(parsed) >= 1
    /\ parsed[1].err = "none"
    /\ Contains(parsed[1].vb.Flags, "m")
    /\ parsed[1].vb.SizeInBytes = 1024
    /\ parsed[1].vb.ReadIOPS = 10

\* C6 as written: an auto-source binding with the m flag and a non-zero IO
\* quota is rejected as "monopoly volume must not be limited".
C6_MonopolyWithQuotaRejected ==
    \A i \in 1..Len(parsed) :
        LET vb == parsed[i].vb
        IN  (~parsed[i].nil /\ HasSuffix(vb.Source, auto) /\ Contains(vb.Flags, "m")
                 /\ vb.Destination # <<>> /\ vb.SizeInBytes # 0
                 /\ vb.ReadIOPS >= 0 /\ vb.WriteIOPS >= 0
                 /\ vb.ReadBytes >= 0 /\ vb.WriteBytes >= 0
                 /\ AnyIOQuota(vb)) =>
                parsed[i].err = "monopoly volume must not be limited"

\* C10: NewVolumeBinding(raw) returns no error exactly for the raw strings of
\* 2, 3, 4 or 8 fields whose numeric fields are decimal integers, whose
\* destination is non-empty, whose IO numbers are >= 0 and which are not both
\* monopoly and unlimited-quota; the binding returned has the input fields, the
\* flags sorted ascending, and zero or empty for the absent trailing fields.
C10_AcceptsExactly ==
    Len(parsed) >= 1 =>
        LET raw == strs[1]
            n == NumFields(raw)
            vb == parsed[1].vb
        IN  /\ parsed[1].err = "none" <=> Accepts(raw)
            /\ parsed[1].err = "none" =>
                  /\ ~parsed[1].nil
                  /\ IsSortedPermutation(vb.Flags, IF n >= 3 THEN FieldOf(raw, 3) ELSE <<>>)
                  /\ n < 4 => vb.SizeInBytes = 0
                  /\ n < 8 => ~AnyIOQuota(vb)

\* C10 witness: an 8-field input with unsorted flags and a quota was accepted.
C10_Witness ==
    /\ Len(parsed) >= 1
    /\ parsed[1].err = "none"
    /\ NumFields(strs[1]) = 8
    /\ parsed[1].vb.Flags # FieldOf(strs[1], 3)
    /\ parsed[1].vb.WriteBytes = 1

---------------------------------------------------------------------------
(* Claims about MergeVolumeBindings, checked under SpecMerge *)

GroupOf(vbs, key) == {i \in 1..Len(vbs) : KeyOf(vbs[i]) = key}

\* C2: the result of a merge holds exactly one binding per key of the inputs
\* whose summed size is >= 0 and none per key whose summed size is < 0, and each
\* of its five numbers is the sum of that field over the inputs with its key.
C2_MergeGroupsAndSums ==
    calls >= 1 =>
        /\ \A i \in 1..Len(acc) : KeyOf(acc[i]) \in KeysIn(lastIn)
        /\ \A key \in KeysIn(lastIn) :
              IF SumOfKey(lastIn, key, 1) >= 0
              THEN /\ Cardinality(GroupOf(acc, key)) = 1
                   /\ \A i \in GroupOf(acc, key) : \A f \in 1..5 :
                         ParaOf(acc[i])[f] = SumOfKey(lastIn, key, f)
              ELSE GroupOf(acc, key) = {}

\* C2 witness: one merge kept the group of 100 and -100 with size 0 and its
\* quotas summed, and dropped the lone binding of size -200.
C2_Witness ==
    /\ calls >= 1
    /\ Cardinality(GroupOf(lastIn, Key1)) = 2
    /\ Cardinality(GroupOf(lastIn, Key2)) = 1
    /\ SumOfKey(lastIn, Key2, 1) = -200
    /\ acc = <<BindingOf(Key1, <<0, 1, 2, 3, 4>>)>>

\* the sum of the original inputs' sizes, the groups of negative total ignored
OriginalTotal ==
    (IF total[Key1] >= 0 THEN total[Key1] ELSE 0)
    + (IF total[Key2] >= 0 THEN total[Key2] ELSE 0)

\* C3, as amended: after any chain of merges in which no call before the last
\* dropped a group, TotalSize of the result is the sum of the sizes of all
\* original inputs, the groups of negative total ignored.
C3_TotalSizeComposes ==
    (calls >= 1 /\ ~droppedEarlier) => TotalSize(acc) = OriginalTotal

\* C3 witness: a nested merge without an earlier drop whose last call ignores
\* a group of negative total and counts another.
C3_Witness ==
    /\ calls >= 2
    /\ ~droppedEarlier
    /\ total[Key2] < 0
    /\ total[Key1] > 0
    /\ TotalSize(acc) = total[Key1]

\* C3 as written: after any chain of merges, nested ones included, TotalSize
\* of the result is the sum of the sizes of all original inputs, the groups of
\* negative total ignored.
C3_TotalSizeOfAnyChain ==
    calls >= 1 => TotalSize(acc) = OriginalTotal

---------------------------------------------------------------------------
(* Claim about ApplyPlan, checked under SpecPlan *)

\* C7: ApplyPlan leaves every binding of its receiver as it was, and returns
\* a slice of the receiver's length whose i-th binding is an object of its
\* own, equal to the receiver's i-th binding except that its Source is the
\* plan's resource id exactly when the plan has a volume map for that binding.
C7_ApplyPlanCopies ==
    applied =>
        /\ receiver = before.receiver
        /\ \A a \in 1..Len(before.heap) : heap[a] = before.heap[a]
        /\ Len(res) = Len(receiver)
        /\ \A i \in 1..Len(res) :
              /\ res[i] \notin 1..Len(before.heap)
              /\ \A j \in 1..Len(res) : res[i] = res[j] => i = j
              /\ LET old == before.heap[receiver[i]]
                 IN  heap[res[i]] =
                        [old EXCEPT !.Source = IF old \in DOMAIN plan THEN plan[old] ELSE @]

\* C7 witness: a receiver of two bindings, one with a volume map and one
\* without, has been applied.
C7_Witness ==
    /\ applied
    /\ Len(res) = 2
    /\ \E i, j \in 1..2 :
          /\ before.heap[receiver[i]] \in DOMAIN plan
          /\ heap[res[i]].Source = plan[before.heap[receiver[i]]]
          /\ before.heap[receiver[j]] \notin DOMAIN plan
          /\ heap[res[j]].Source = before.heap[receiver[j]].Source

---------------------------------------------------------------------------
(* Claim about NodeResource, checked under SpecNode *)

\* C8: when the node name is non-empty and the node read and the workload
\* listing succeed, NodeResource returns no error whatever the inspections of
\* the workloads do: the result carries the node name and an "inspect failed"
\* diff for every workload whose inspection failed, and every workload listed
\* has been inspected.
C8_InspectFailureIsNotAnError ==
    (npc = "done" /\ nodename # <<>> /\ nodeRead = "ok" /\ listing = "ok") =>
        /\ returned.err = "none"
        /\ returned.Name = nodename
        /\ inspected = Len(workloads)
        /\ \A w \in inspectFailed :
              \E d \in 1..Len(returned.Diffs) :
                  returned.Diffs[d] = [workload |-> workloads[w], what |-> "inspect failed"]

\* C8 witness: of two workloads the first failed its inspection, the second
\* was still inspected, and the call returned.
C8_Witness ==
    /\ npc = "done"
    /\ returned.err = "none"
    /\ Len(workloads) = 2
    /\ inspectFailed = {1}
    /\ inspected = 2
    /\ \E d \in 1..Len(returned.Diffs) : returned.Diffs[d].what = "inspect failed"

====
